---- MODULE Spec2Model ----
(***************************************************************************)
(* Model of the retrieval core of junote821/miniproj3:                     *)
(*   - Day1Agent.handle  (src/sub_agents/day1/impl/agent.py): thread-pool  *)
(*     fan-out of the web / stock / profile tasks and the as_completed     *)
(*     collection loop;                                                    *)
(*   - pps_fetch_bids    (src/student/day3/impl/pps_api.py): the           *)
(*     sequential paginated fetch, and its caller pps_agent._handle.       *)
(* Spec is the orchestrator, PpsSpec the paginated fetch.                  *)
(***************************************************************************)
EXTENDS Integers, Sequences, FiniteSets, TLC

\* ------------------------------------------------------------------ bounds
\* longest list an adapter hands back to the orchestrator
MaxItems == 2
\* most tickers a plan carries
MaxTickers == 1

\* ------------------------------------------------------- program constants
MAX_WORKERS == 4

\* ---------------------------------------------------------------- helpers
Min(a, b) == IF a < b THEN a ELSE b

RECURSIVE SeqsUpTo(_, _)
\* all sequences over S of length 0..n
SeqsUpTo(S, n) ==
    IF n = 0 THEN {<<>>}
    ELSE LET shorter == SeqsUpTo(S, n - 1)
         IN shorter \cup {Append(s, x) : s \in {t \in shorter : Len(t) = n - 1}, x \in S}

\* a Python slice xs[:n]
Take(xs, n) == SubSeq(xs, 1, Min(n, Len(xs)))

Range(s) == {s[i] : i \in 1..Len(s)}

Count(s, x) == Cardinality({i \in 1..Len(s) : s[i] = x})

\* ===================================================================
\*                 Day1Agent.handle  (fan-out orchestrator)
\* ===================================================================
VARIABLES
    plan,       \* the Day1Plan handed to handle
    query,      \* what the conditions of line 140 read off the query string
    outcome,    \* per label: what the submitted callable returns or raises
    pc,         \* position of handle: "start", "collect", "returned", "raised"
    futures,    \* labels of the submitted futures, in submission order
    finished,   \* labels whose future has completed (worker threads)
    collected,  \* labels already yielded by as_completed, in that order
    results,    \* the results dict of handle
    writes,     \* per slot of results: number of assignments made to it
    payload,    \* the value handle returns
    expired,    \* request_timeout seconds have passed since the loop began
    late        \* labels whose future completed after that moment

day1vars == <<plan, query, outcome, pc, futures, finished, collected,
              results, writes, payload, expired, late>>

\* ---- state of pps_fetch_bids
VARIABLES
    service_key,  \* PPS_SERVICE_KEY is set
    rows,         \* records asked per page, after line 147
    page_max,     \* page cap, after line 148
    ppc,          \* position of pps_fetch_bids: "call", "loop", "returned", "raised"
    page,         \* the loop variable
    out,          \* notices accumulated so far
    requested,    \* pageNo of every request sent, in order
    responses,    \* what the API answered to each request
    ret           \* the list handed back to pps_agent._handle

ppsvars == <<service_key, rows, page_max, ppc, page, out, requested, responses, ret>>

\* ---- state of _to_notice (one raw record being normalized)
VARIABLES
    nt_pc,        \* "call" or "returned"
    nt_raw,       \* the raw API record
    nt_out        \* the notice built from it

ntvars == <<nt_pc, nt_raw, nt_out>>

\* ---- state of rank_items
VARIABLES
    rk_pc,        \* "call" or "returned"
    rk_items,     \* the list handed to rank_items
    rk_query,     \* the query, as its characters
    rk_parts,     \* per input item: the sd, sk, st of score_item
    rk_out,       \* the list rank_items returns
    rk_perm       \* per output position: the input position it came from

rkvars == <<rk_pc, rk_items, rk_query, rk_parts, rk_out, rk_perm>>

\* ---- state of get_quotes
VARIABLES
    gq_pc,        \* "call", "loop", "returned" or "raised"
    gq_symbols,   \* the symbols argument
    gq_import,    \* `from yfinance import Ticker` succeeds
    gq_feed,      \* per position: what Ticker(sym) and its fast_info give
    gq_i,         \* symbols processed so far
    gq_out        \* the list being built

gqvars == <<gq_pc, gq_symbols, gq_import, gq_feed, gq_i, gq_out>>

\* ---- state of pps_search
VARIABLES
    ps_pc,        \* "call", "full", "reduced", "render", "returned" or "raised"
    ps_fetch,     \* the function bound to _FETCH, by its signature
    ps_query,     \* the query argument
    ps_env,       \* the PPS_* environment variables resolve_params reads
    ps_p,         \* the PpsParams of resolve_params
    ps_calls,     \* the keyword arguments of each call of _FETCH, in order
    ps_raw,       \* what _FETCH returned
    ps_result     \* what pps_search hands back, or the exception that escapes

psvars == <<ps_pc, ps_fetch, ps_query, ps_env, ps_p, ps_calls, ps_raw, ps_result>>

vars == <<day1vars, ppsvars, ntvars, rkvars, gqvars, psvars>>

\* everything but the state of the named part
notDay1 == <<ppsvars, ntvars, rkvars, gqvars, psvars>>
notPps == <<day1vars, ntvars, rkvars, gqvars, psvars>>
notNt == <<day1vars, ppsvars, rkvars, gqvars, psvars>>
notRk == <<day1vars, ppsvars, ntvars, gqvars, psvars>>
notGq == <<day1vars, ppsvars, ntvars, rkvars, psvars>>
notPs == <<day1vars, ppsvars, ntvars, rkvars, gqvars>>

Labels == {"web", "stock", "profile"}

Slots == {"items", "tickers", "company_profile", "profile_sources"}

\* the slots of results a label owns
SlotsOf(kind) ==
    CASE kind = "web" -> {"items"}
      [] kind = "stock" -> {"tickers"}
      [] kind = "profile" -> {"company_profile", "profile_sources"}

Exceptions ==
    { [name |-> "TimeoutError", msg |-> "timed out", base |-> "Exception"],
      [name |-> "HTTPError", msg |-> "500", base |-> "Exception"] }

NoExc == [name |-> "", msg |-> "", base |-> ""]

\* a callable's outcome: a returned value (data/summary, isNone for None)
\* or a raised exception
Returned(data, isNone, summary) ==
    [ok |-> TRUE, exc |-> NoExc, data |-> data, isNone |-> isNone, summary |-> summary]

Raised(e) ==
    [ok |-> FALSE, exc |-> e, data |-> <<>>, isNone |-> FALSE, summary |-> ""]

WebHits == <<"w1", "w2", "w3", "w4">>
Quotes == <<"q1", "q2", "q3", "q4">>
Urls == <<"u1", "u2", "u3", "u4">>

\* search_tavily / get_quotes: a list, None, or an exception
ListOutcomes(hits) ==
    {Returned(Take(hits, n), FALSE, "") : n \in 0..MaxItems}
      \cup {Returned(<<>>, TRUE, "")}
      \cup {Raised(e) : e \in Exceptions}

\* the profile job: search, keep at most two urls, extract and summarize
job(found, summary, failure) ==
    IF failure = "search" THEN Raised(CHOOSE e \in Exceptions : e.name = "TimeoutError")
    ELSE LET urls == Take(found, 2)
         IN IF urls = <<>> THEN Returned(<<>>, FALSE, "")
            ELSE IF failure = "extract"
                 THEN Raised(CHOOSE e \in Exceptions : e.name = "HTTPError")
                 ELSE Returned(urls, FALSE, summary)

ProfileOutcomes ==
    {job(Take(Urls, n), s, f) : n \in 0..(MaxItems + 1), s \in {"", "S"},
                                f \in {"none", "search", "extract"}}

Plans ==
    [do_web : BOOLEAN, do_stocks : BOOLEAN,
     tickers : SeqsUpTo({"AAPL"}, MaxTickers)]

Queries == [looks_like_ticker : BOOLEAN, profile_word : BOOLEAN]

EmptyResults ==
    [type |-> "web_results", items |-> <<>>, tickers |-> <<>>, errors |-> <<>>,
     company_profile |-> "", profile_sources |-> <<>>]

\* the three submission conditions of the with-block
SubmitsWeb(p, q) == p.do_web

SubmitsStockAlways(p, q) == p.do_stocks

SubmitsStock(p, q) == p.do_stocks /\ p.tickers # <<>>

SubmitsProfile(p, q) ==
    q.looks_like_ticker \/ (p.tickers # <<>> /\ Len(p.tickers) > 0) \/ q.profile_word

\* the futures dict after the three conditional submits, as the labels in
\* submission order
SubmitAll(p, q) ==
    (IF SubmitsWeb(p, q) THEN <<"web">> ELSE <<>>)
      \o (IF SubmitsStock(p, q) THEN <<"stock">> ELSE <<>>)
      \o (IF SubmitsProfile(p, q) THEN <<"profile">> ELSE <<>>)

\* f"{kind}: {type(e).__name__}: {e}", as its pieces in order
ErrorEntryNoLabel(kind, e) == <<e.name, ": ", e.msg>>

ErrorEntry(kind, e) == <<kind, ": ", e.name, ": ", e.msg>>

\* `except Exception`
CatchesTimeoutOnly(e) == e.name = "TimeoutError"

Catches(e) == e.base = "Exception"

\* the try-body of the collection loop for a future that returned
StoreWrongSlot(res, kind, o) ==
    CASE kind = "web" -> [res EXCEPT !.items = IF o.isNone THEN <<>> ELSE o.data]
      [] kind = "stock" -> [res EXCEPT !.items = IF o.isNone THEN <<>> ELSE o.data]
      [] kind = "profile" ->
            [res EXCEPT !.company_profile = IF o.summary # "" THEN o.summary ELSE @,
                        !.profile_sources = IF o.data # <<>> THEN Take(o.data, 2) ELSE @]

Store(res, kind, o) ==
    CASE kind = "web" -> [res EXCEPT !.items = IF o.isNone THEN <<>> ELSE o.data]
      [] kind = "stock" -> [res EXCEPT !.tickers = IF o.isNone THEN <<>> ELSE o.data]
      [] kind = "profile" ->
            [res EXCEPT !.company_profile = IF o.summary # "" THEN o.summary ELSE @,
                        !.profile_sources = IF o.data # <<>> THEN Take(o.data, 2) ELSE @]

\* the slots the try-body assigns
Assigned(kind, o) ==
    CASE kind = "web" -> {"items"}
      [] kind = "stock" -> {"tickers"}
      [] kind = "profile" ->
            (IF o.summary # "" THEN {"company_profile"} ELSE {})
              \cup (IF o.data # <<>> THEN {"profile_sources"} ELSE {})

\* the except-body
OnExceptionClearing(res, kind, e) ==
    [res EXCEPT !.errors = Append(@, ErrorEntry(kind, e)), !.items = <<>>]

OnException(res, kind, e) ==
    [res EXCEPT !.errors = Append(@, ErrorEntry(kind, e))]

\* one iteration of `for fut in as_completed(futures)`
CollectOne(res, kind, o) ==
    IF o.ok THEN Store(res, kind, o) ELSE OnException(res, kind, o.exc)

\* sub_agents/day1/impl/merge.py: the standard-schema payload built from
\* results
merge_day1_payload(res) ==
    [type |-> res.type, items |-> res.items, tickers |-> res.tickers,
     errors |-> res.errors, company_profile |-> res.company_profile,
     profile_sources |-> res.profile_sources]

Day1Init ==
    /\ plan \in Plans
    /\ query \in Queries
    /\ outcome \in [Labels -> ListOutcomes(WebHits) \cup ListOutcomes(Quotes) \cup ProfileOutcomes]
    /\ outcome["web"] \in ListOutcomes(WebHits)
    /\ outcome["stock"] \in ListOutcomes(Quotes)
    /\ outcome["profile"] \in ProfileOutcomes
    /\ pc = "start"
    /\ futures = <<>>
    /\ finished = {}
    /\ collected = <<>>
    /\ results = EmptyResults
    /\ writes = [s \in Slots |-> 0]
    /\ payload = EmptyResults
    /\ expired = FALSE
    /\ late = {}

\* lines 131-141: the conditional submits
Submit ==
    /\ pc = "start"
    /\ futures' = SubmitAll(plan, query)
    /\ pc' = "collect"
    /\ UNCHANGED <<plan, query, outcome, finished, collected, results, writes,
                   payload, expired, late>>
    /\ UNCHANGED notDay1

\* a worker thread finishes the callable of the future labelled kind
Complete(kind) ==
    /\ pc = "collect"
    /\ kind \in Range(futures)
    /\ kind \notin finished
    /\ Cardinality(Range(futures) \ finished) <= MAX_WORKERS
    /\ finished' = finished \cup {kind}
    /\ late' = IF expired THEN late \cup {kind} ELSE late
    /\ UNCHANGED <<plan, query, outcome, pc, futures, collected, results, writes,
                   payload, expired>>
    /\ UNCHANGED notDay1

\* request_timeout seconds elapse while the loop is waiting
Expire ==
    /\ pc = "collect"
    /\ ~expired
    /\ expired' = TRUE
    /\ UNCHANGED <<plan, query, outcome, pc, futures, finished, collected, results,
                   writes, payload, late>>
    /\ UNCHANGED notDay1

\* lines 143-161: as_completed yields a completed future; fut.result returns
\* at once because the future is done
Collect(kind) ==
    /\ pc = "collect"
    /\ kind \in finished
    /\ kind \notin Range(collected)
    /\ collected' = Append(collected, kind)
    /\ IF outcome[kind].ok \/ Catches(outcome[kind].exc)
       THEN /\ results' = CollectOne(results, kind, outcome[kind])
            /\ writes' = [s \in Slots |->
                            IF outcome[kind].ok /\ s \in Assigned(kind, outcome[kind])
                            THEN writes[s] + 1 ELSE writes[s]]
            /\ pc' = pc
       ELSE /\ pc' = "raised"
            /\ UNCHANGED <<results, writes>>
    /\ UNCHANGED <<plan, query, outcome, futures, finished, payload, expired, late>>
    /\ UNCHANGED notDay1

\* lines 163-164: every future was yielded, the pool is shut down, the
\* merged payload is returned
Return ==
    /\ pc = "collect"
    /\ Len(collected) = Len(futures)
    /\ payload' = merge_day1_payload(results)
    /\ pc' = "returned"
    /\ UNCHANGED <<plan, query, outcome, futures, finished, collected, results,
                   writes, expired, late>>
    /\ UNCHANGED notDay1

Next ==
    \/ Submit
    \/ \E kind \in Labels : Complete(kind)
    \/ Expire
    \/ \E kind \in Labels : Collect(kind)
    \/ Return

\* ===================================================================
\*                 Properties of Day1Agent.handle
\* ===================================================================
Submitted == Range(futures)

Failed == {k \in Submitted : ~outcome[k].ok}

\* the value of a task that returned is what the payload holds for its label
ResultPresent(p, k) ==
    CASE k = "web" -> p.items = (IF outcome[k].isNone THEN <<>> ELSE outcome[k].data)
      [] k = "stock" -> p.tickers = (IF outcome[k].isNone THEN <<>> ELSE outcome[k].data)
      [] k = "profile" -> /\ p.company_profile = outcome[k].summary
                          /\ p.profile_sources = outcome[k].data

\* the slots of a label hold their initial empty value
SlotsEmpty(p, k) == \A s \in SlotsOf(k) : p[s] = EmptyResults[s]

ErrorsOf(p, k) == {i \in 1..Len(p.errors) : Head(p.errors[i]) = k}

\* C1: whichever submitted tasks raise, handle returns normally; the payload
\* holds the result of every task that succeeded and exactly one error entry,
\* beginning with the label, for every task that failed.
C1_PartialFailure ==
    /\ pc # "raised"
    /\ pc = "returned" =>
          /\ \A k \in Submitted : outcome[k].ok => ResultPresent(payload, k)
          /\ \A k \in Failed : Cardinality(ErrorsOf(payload, k)) = 1
          /\ Len(payload.errors) = Cardinality(Failed)

\* three tasks, exactly one failed, the two other results in the payload
C1_Witness ==
    /\ pc = "returned"
    /\ Len(futures) = 3
    /\ Failed = {"stock"}
    /\ Len(payload.errors) = 1
    /\ payload.items # <<>>
    /\ payload.profile_sources # <<>>

\* C2: the run has one outer deadline; a task that had not completed when it
\* expired is abandoned: the payload holds a timeout error under its label
\* and never the result it produced later.
C2_OuterDeadline ==
    pc = "returned" =>
        \A k \in late :
            /\ SlotsEmpty(payload, k)
            /\ \E i \in ErrorsOf(payload, k) : payload.errors[i][3] = "TimeoutError"

\* C4: a run with no task submitted, or with every submitted task failing,
\* returns an empty item list and a non-empty error list.
C4_EmptyRun ==
    (pc = "returned" /\ Failed = Submitted) =>
        /\ payload.items = <<>>
        /\ payload.errors # <<>>

\* the condition under which the profile capability is on (there is no plan
\* flag for it)
ProfileEnabled == query.looks_like_ticker \/ query.profile_word \/ Len(plan.tickers) > 0

RECURSIVE CollectInOrder(_, _)
\* the results dict after collecting the futures in the given order
CollectInOrder(res, order) ==
    IF order = <<>> THEN res
    ELSE CollectInOrder(CollectOne(res, Head(order), outcome[Head(order)]), Tail(order))

\* the payload of the run in which the tasks complete in submission order
InSubmissionOrder == merge_day1_payload(CollectInOrder(EmptyResults, futures))

\* C6 as claimed: the whole payload, error order included, is the same for
\* every completion order.
C6_Original == pc = "returned" => payload = InSubmissionOrder

IsFailed(k) == ~outcome[k].ok

\* C6: for a fixed plan and fixed task outcomes, items, tickers, the profile
\* fields and the set of error entries are the same for every completion
\* order; the error entries stand in the order the failed tasks completed.
C6_OrderIndependent ==
    pc = "returned" =>
        /\ payload.items = InSubmissionOrder.items
        /\ payload.tickers = InSubmissionOrder.tickers
        /\ payload.company_profile = InSubmissionOrder.company_profile
        /\ payload.profile_sources = InSubmissionOrder.profile_sources
        /\ Range(payload.errors) = Range(InSubmissionOrder.errors)
        /\ Len(payload.errors) = Len(InSubmissionOrder.errors)
        /\ [i \in 1..Len(payload.errors) |-> Head(payload.errors[i])]
              = SelectSeq(collected, IsFailed)

\* a task returned and two failed, completing in the reverse of the
\* submission order: same items, the two error entries swapped
C6_Witness ==
    /\ pc = "returned"
    /\ collected = <<"profile", "stock", "web">>
    /\ Failed = {"stock", "profile"}
    /\ payload.items # <<>>
    /\ payload.items = InSubmissionOrder.items
    /\ payload.errors # InSubmissionOrder.errors

\* the step collects the future labelled k
Collects(k) == collected' = Append(collected, k)

\* C7: collecting the outcome of label L writes only L's own slots or appends
\* one error entry; every other slot is unchanged, a slot is assigned at most
\* once per run, and a failed task leaves its slots at their empty value.
C7_SlotOwnership ==
    [][ /\ \A s \in Slots :
              results'[s] # results[s] =>
                  \E k \in Labels : s \in SlotsOf(k) /\ Collects(k) /\ outcome[k].ok
        /\ results'.errors # results.errors =>
              \E k \in Labels :
                  /\ Collects(k)
                  /\ ~outcome[k].ok
                  /\ Len(results'.errors) = Len(results.errors) + 1
                  /\ SubSeq(results'.errors, 1, Len(results.errors)) = results.errors
        /\ \A k \in Labels :
              (Collects(k) /\ ~outcome[k].ok) => SlotsEmpty(results', k)
        /\ \A s \in Slots : writes'[s] <= 1
      ]_vars

\* a failed task was collected after another label's slot had been filled
C7_Witness ==
    /\ pc = "returned"
    /\ collected = <<"web", "profile", "stock">>
    /\ Failed = {"stock"}
    /\ writes = [s \in Slots |-> IF s = "tickers" THEN 0 ELSE 1]
    /\ results.items # <<>>
    /\ results.tickers = <<>>

\* ===================================================================
\*                 pps_fetch_bids  (paginated fetch)
\* ===================================================================
\* most records one page of the listing API hands back
MaxPageItems == 2
\* largest page_max / rows passed as an argument (0 stands for None)
MaxPagesArg == 2
MaxRowsArg == 2

\* the defaults of PPS_PAGE_MAX and PPS_ROWS
PAGE_MAX_DEFAULT == 3
ROWS_DEFAULT == 100

RawItems ==
    { [bidNtceNm |-> "A", bidNtceDtlUrl |-> "u1", bidClseDt |-> ""],
      [bidNtceNm |-> "B", bidNtceDtlUrl |-> "u2", bidClseDt |-> ""],
      [bidNtceNm |-> "", bidNtceDtlUrl |-> "u1", bidClseDt |-> ""],
      [bidNtceNm |-> "A", bidNtceDtlUrl |-> "u1", bidClseDt |-> "20250101"] }

\* what one GET can lead to: a parsed JSON body, an HTTP error status
\* (raise_for_status), a timeout (SESSION.get) or an unparseable body (r.json)
Responses ==
    {[status |-> "ok", shape |-> "list", item |-> it] : it \in SeqsUpTo(RawItems, MaxPageItems)}
      \cup {[status |-> "ok", shape |-> "dict", item |-> <<r>>] : r \in RawItems}
      \cup {[status |-> "ok", shape |-> "other", item |-> <<>>]}
      \cup {[status |-> st, shape |-> "other", item |-> <<>>] :
                st \in {"http_error", "timeout", "bad_json"}}

\* int(arg or env or default), the environment variable left unset
ResolveInt(arg, dflt) == IF arg # 0 THEN arg ELSE dflt

\* response.body.items.item as a list; [] for any other shape
_extract_items(resp) ==
    IF resp.shape = "dict" THEN <<resp.item[1]>>
    ELSE IF resp.shape = "list" THEN resp.item
    ELSE <<>>

\* item.get(key, "")
Get(item, key) == IF key \in DOMAIN item THEN item[key] ELSE ""

\* the field values the normalizer is run on: absent/empty, blank, dates in
\* each accepted layout, and text that is no date
DateTexts ==
    {"", "   ", "20250101", " 20250101 ", "20251231", "202512311830",
     "2025-12-31", "2025-12-31 18:30", "garbage"}

\* str.strip
Strip(t) ==
    CASE t = "   " -> ""
      [] t = " 20250101 " -> "20250101"
      [] t = " AI " -> "AI"
      [] OTHER -> t

\* the formats _to_iso_date tries, in order
DateFormats == <<"%Y%m%d%H%M", "%Y%m%d%H%M%S", "%Y%m%d", "%Y-%m-%d %H:%M", "%Y-%m-%d">>

\* datetime.strptime(text, fmt).date().isoformat(), "" where strptime raises
\* (eight digits whose month and day are not zero-padded also match
\* %Y%m%d%H%M with one-digit fields: 20251231 is read as 2025-1-2 03:01)
Strptime(text, fmt) ==
    CASE text = "202512311830" /\ fmt \in {"%Y%m%d%H%M", "%Y%m%d%H%M%S"} -> "2025-12-31"
      [] text = "20251231" /\ fmt = "%Y%m%d%H%M" -> "2025-01-02"
      [] text = "20251231" /\ fmt = "%Y%m%d" -> "2025-12-31"
      [] text = "20250101" /\ fmt = "%Y%m%d" -> "2025-01-01"
      [] text = "2025-12-31 18:30" /\ fmt = "%Y-%m-%d %H:%M" -> "2025-12-31"
      [] text = "2025-12-31" /\ fmt = "%Y-%m-%d" -> "2025-12-31"
      [] OTHER -> ""

\* s.isdigit() and len(s) == 8
IsDigits8(text) == text \in {"20250101", "20251231"}

RECURSIVE TryFormats(_, _)
\* the for-loop of _to_iso_date: the first format that parses wins
TryFormats(text, fmts) ==
    IF fmts = <<>> THEN ""
    ELSE IF Strptime(text, Head(fmts)) # "" THEN Strptime(text, Head(fmts))
    ELSE TryFormats(text, Tail(fmts))

_to_iso_date(s) ==
    IF s = "" THEN ""
    ELSE LET t == Strip(s)
             d == TryFormats(t, DateFormats)
         IN IF d # "" THEN d
            ELSE IF IsDigits8(t) THEN Strptime(t, "%Y%m%d")
            ELSE ""

\* the candidate fields of the close date and of the budget, in order
CloseKeys == <<"bidClseDt", "opengDt", "rlOpngDt", "bidEndDt">>
BudgetKeys == <<"presmptPrce", "asignBdgtAmt", "purchsBudgetAmt">>

RECURSIVE CloseDateFirstNonEmpty(_, _)
CloseDateFirstNonEmpty(item, keys) ==
    IF keys = <<>> THEN ""
    ELSE LET val == Strip(Get(item, Head(keys)))
         IN IF val # "" THEN _to_iso_date(val)
            ELSE CloseDateFirstNonEmpty(item, Tail(keys))

RECURSIVE CloseDate(_, _)
\* lines 95-101: every non-empty candidate is parsed; the loop breaks at the
\* first one that gives a date
CloseDate(item, keys) ==
    IF keys = <<>> THEN ""
    ELSE LET val == Strip(Get(item, Head(keys)))
         IN IF val # "" /\ _to_iso_date(val) # "" THEN _to_iso_date(val)
            ELSE CloseDate(item, Tail(keys))

RECURSIVE Budget(_, _)
\* lines 103-108: the first non-empty budget field
Budget(item, keys) ==
    IF keys = <<>> THEN ""
    ELSE LET v == Strip(Get(item, Head(keys)))
         IN IF v # "" THEN v ELSE Budget(item, Tail(keys))

\* the placeholder title of line 111 (a Korean phrase, "title to be checked")
TitlePlaceholder == "title-to-be-checked"

\* the GovNotice mapping
_to_notice(item) ==
    [title |-> IF Strip(Get(item, "bidNtceNm")) # ""
               THEN Strip(Get(item, "bidNtceNm")) ELSE TitlePlaceholder,
     url |-> Strip(Get(item, "bidNtceDtlUrl")),
     source |-> "pps.data.go.kr",
     agency |-> Strip(Get(item, "ntceInsttNm")),
     announce_date |-> _to_iso_date(Strip(Get(item, "ntceDt"))),
     close_date |-> CloseDate(item, CloseKeys),
     budget |-> Budget(item, BudgetKeys),
     snippet |-> "",
     attachments |-> <<>>,
     content_type |-> "notice",
     score |-> 0]

Notices(items) == [i \in 1..Len(items) |-> _to_notice(items[i])]

RECURSIVE DedupByUrl(_, _, _)
DedupByUrl(xs, seen, acc) ==
    IF xs = <<>> THEN acc
    ELSE LET key == Head(xs).url
         IN IF key \in seen THEN DedupByUrl(Tail(xs), seen, acc)
            ELSE DedupByUrl(Tail(xs), seen \cup {key}, Append(acc, Head(xs)))

RECURSIVE Dedup(_, _, _)
\* lines 185-192: keep the first notice of every (title, url) key
Dedup(xs, seen, acc) ==
    IF xs = <<>> THEN acc
    ELSE LET key == <<Head(xs).title, Head(xs).url>>
         IN IF key \in seen THEN Dedup(Tail(xs), seen, acc)
            ELSE Dedup(Tail(xs), seen \cup {key}, Append(acc, Head(xs)))

\* the two break tests of the loop body, in their order
StopRuleNoEmpty(items, n) ==
    IF items # <<>> /\ Len(items) < n THEN "short" ELSE "continue"

StopRuleNoShort(items, n) ==
    IF items = <<>> THEN "empty" ELSE "continue"

StopRule(items, n) ==
    IF items = <<>> THEN "empty"
    ELSE IF Len(items) < n THEN "short"
    ELSE "continue"

\* range(1, page_max + 1)
NextPageSkip(p) == p + 2

NextPage(p) == p + 1

PpsInit ==
    /\ service_key \in BOOLEAN
    /\ rows \in {ResolveInt(a, ROWS_DEFAULT) : a \in 0..MaxRowsArg}
    /\ page_max \in {ResolveInt(a, PAGE_MAX_DEFAULT) : a \in 0..MaxPagesArg}
    /\ ppc = "call"
    /\ page = 0
    /\ out = <<>>
    /\ requested = <<>>
    /\ responses = <<>>
    /\ ret = <<>>

\* lines 138-155: no key means an empty list at once; else the loop starts
Enter ==
    /\ ppc = "call"
    /\ IF ~service_key
       THEN /\ ppc' = "returned"
            /\ page' = page
       ELSE /\ ppc' = "loop"
            /\ page' = 1
    /\ UNCHANGED <<service_key, rows, page_max, out, requested, responses, ret>>
    /\ UNCHANGED notPps

\* lines 155-194: one iteration of the loop; the iteration that leaves the
\* loop also deduplicates and returns
FetchPage(resp) ==
    /\ ppc = "loop"
    /\ page <= page_max
    /\ requested' = Append(requested, page)
    /\ responses' = Append(responses, resp)
    /\ IF resp.status # "ok"
       THEN /\ ppc' = "raised"
            /\ UNCHANGED <<page, out, ret>>
       ELSE LET items == _extract_items(resp)
                rule == StopRule(items, rows)
                acc == IF rule = "empty" THEN out ELSE out \o Notices(items)
            IN /\ out' = acc
               /\ IF rule # "continue" \/ NextPage(page) > page_max
                  THEN /\ ppc' = "returned"
                       /\ ret' = Dedup(acc, {}, <<>>)
                       /\ page' = page
                  ELSE /\ ppc' = "loop"
                       /\ ret' = ret
                       /\ page' = NextPage(page)
    /\ UNCHANGED <<service_key, rows, page_max>>
    /\ UNCHANGED notPps

PpsNext ==
    \/ Enter
    \/ \E resp \in Responses : FetchPage(resp)

\* ===================================================================
\*                 Properties of pps_fetch_bids
\* ===================================================================
\* the records of the i-th answered page
PageItems(i) == _extract_items(responses[i])

RECURSIVE Accumulated(_)
\* the notices of the first n answered pages, in order
Accumulated(n) ==
    IF n = 0 THEN <<>> ELSE Accumulated(n - 1) \o Notices(PageItems(n))

Answered == 1..Len(responses)

\* C3: a failed call on page k never escapes to the caller of the paginated
\* path; the caller gets the records of pages 1..k-1.
C3_FailureContained ==
    \A k \in Answered :
        responses[k].status # "ok" =>
            /\ ppc = "returned"
            /\ ret = Dedup(Accumulated(k - 1), {}, <<>>)

\* C8: a page with 0 records ends the loop at once: it is the last page
\* requested and the result is what the earlier pages gave; an empty page 1
\* means one request and an empty result.
C8_EmptyPageStops ==
    /\ \A k \in Answered :
          (responses[k].status = "ok" /\ PageItems(k) = <<>>) =>
              /\ k = Len(requested)
              /\ ppc = "returned"
              /\ ret = Dedup(Accumulated(k - 1), {}, <<>>)
    /\ (responses # <<>> /\ responses[1].status = "ok" /\ PageItems(1) = <<>>) =>
          /\ requested = <<1>>
          /\ ret = <<>>

\* page 1 of up to three came back empty
C8_Witness ==
    /\ ppc = "returned"
    /\ page_max = 3
    /\ requested = <<1>>
    /\ responses[1].status = "ok"
    /\ responses[1].shape = "list"
    /\ PageItems(1) = <<>>
    /\ ret = <<>>

\* C9: a page with n records, 0 < n < rows, is accumulated and is the last
\* page requested.
C9_ShortPageStops ==
    \A k \in Answered :
        (responses[k].status = "ok" /\ PageItems(k) # <<>> /\ Len(PageItems(k)) < rows) =>
            /\ k = Len(requested)
            /\ ppc = "returned"
            /\ out = Accumulated(k)
            /\ ret = Dedup(out, {}, <<>>)

\* a full page 1 and a short page 2 under a cap of three pages
C9_Witness ==
    /\ ppc = "returned"
    /\ page_max = 3
    /\ rows = 2
    /\ requested = <<1, 2>>
    /\ Len(PageItems(1)) = 2
    /\ Len(PageItems(2)) = 1
    /\ Len(out) = 3

AllPagesFull ==
    \A k \in Answered : responses[k].status = "ok" /\ Len(PageItems(k)) = rows

PpsTerminated == ppc \in {"returned", "raised"}

\* C10: whatever the API answers, the fetch ends, having requested pages
\* 1, 2, ..., k in that order, each once, with k <= page_max; when every page
\* holds exactly rows records the loop (entered with a service key) stops at
\* k = page_max.
C10_SequentialBounded ==
    /\ [](/\ \A i \in 1..Len(requested) : requested[i] = i
          /\ Len(requested) <= page_max
          /\ (ppc = "returned" /\ service_key /\ AllPagesFull) => Len(requested) = page_max)
    /\ <>PpsTerminated

\* every page up to the cap of three was full
C10_Witness ==
    /\ ppc = "returned"
    /\ page_max = 3
    /\ requested = <<1, 2, 3>>
    /\ AllPagesFull

\* the (title, url) pair of a notice
KeyOf(n) == <<n.title, n.url>>

\* the positions of `out` whose key occurs at no earlier position
FirstAt == {i \in 1..Len(out) : \A j \in 1..(i - 1) : KeyOf(out[j]) # KeyOf(out[i])}

\* the k-th smallest of them
KthFirst(k) == CHOOSE i \in FirstAt : Cardinality({j \in FirstAt : j <= i}) = k

C18_AuthMissingObservable ==
    (~service_key /\ ppc # "call") => ~(ppc = "returned" /\ ret = <<>>)

\* ===================================================================
\*                 _to_notice  (normalizer)
\* ===================================================================
NoNotice == _to_notice([bidNtceNm |-> ""])

\* raw records: a title or none, and any text in the four close-date fields
NoticeRaws ==
    [bidNtceNm : {"", "A"}, bidNtceDtlUrl : {"u1"},
     bidClseDt : DateTexts, opengDt : DateTexts,
     rlOpngDt : DateTexts, bidEndDt : DateTexts]

NtInit ==
    /\ nt_pc = "call"
    /\ nt_raw \in NoticeRaws
    /\ nt_out = NoNotice

\* lines 79-122
Normalize ==
    /\ nt_pc = "call"
    /\ nt_out' = _to_notice(nt_raw)
    /\ nt_pc' = "returned"
    /\ UNCHANGED nt_raw
    /\ UNCHANGED notNt

NtNext == Normalize

NtIdle ==
    /\ nt_pc = "call"
    /\ nt_raw = [bidNtceNm |-> ""]
    /\ nt_out = NoNotice

\* the stripped values of the close-date candidates, in candidate order
CloseVals == [i \in 1..Len(CloseKeys) |-> Strip(Get(nt_raw, CloseKeys[i]))]

NonEmptyAt == {i \in 1..Len(CloseKeys) : CloseVals[i] # ""}

ParsesAt == {i \in 1..Len(CloseKeys) : CloseVals[i] # "" /\ _to_iso_date(CloseVals[i]) # ""}

Least(S) == CHOOSE i \in S : \A j \in S : i <= j

MaxRankItems == 3
\* most characters of a query, of a title or snippet
MaxQueryLen == 3
MaxTextLen == 2
\* latest close date tried, in days from today
MaxDays == 35

\* what _days_until gives for a missing or unparseable close date
NO_DATE_DAYS == 9999

Max(a, b) == IF a > b THEN a ELSE b

\* characters: letters in both cases, a digit, a Hangul syllable ("KO"), and
\* two separators
WordChars == {"a", "b", "A", "B", "0", "KO"}

\* str.lower, per character
LowerChar(c) ==
    CASE c = "A" -> "a"
      [] c = "B" -> "b"
      [] OTHER -> c

Lower(text) == [i \in 1..Len(text) |-> LowerChar(text[i])]

\* source.lower() for the sources tried
LowerSource(src) == IF src = "NIPA" THEN "nipa" ELSE src

\* a close date: empty, text that is no %Y-%m-%d date, or a date given by
\* its distance from date.today() in days
EmptyDate == [kind |-> "empty", days |-> 0]
BadDate == [kind |-> "bad", days |-> 0]
DateIn(d) == [kind |-> "date", days |-> d]

_days_until(dstr) == IF dstr.kind = "date" THEN dstr.days ELSE NO_DATE_DAYS

\* thirtieths of the deadline score
_deadline_scoreNoPast(close_date) ==
    LET days == _days_until(close_date)
    IN IF days >= 30 THEN 0 ELSE Max(0, 30 - days)

_deadline_score(close_date) ==
    LET days == _days_until(close_date)
    IN IF days <= 0 THEN 30
       ELSE IF days >= 30 THEN 0
       ELSE Max(0, 30 - days)

RECURSIVE FindAll(_, _)
\* re.findall(r"[가-힣A-Za-z0-9]+", text): the maximal runs of word
\* characters, left to right; cur is the run being read
FindAll(text, cur) ==
    IF text = <<>> THEN (IF cur = <<>> THEN <<>> ELSE <<cur>>)
    ELSE IF Head(text) \in WordChars THEN FindAll(Tail(text), Append(cur, Head(text)))
    ELSE (IF cur = <<>> THEN <<>> ELSE <<cur>>) \o FindAll(Tail(text), <<>>)

\* `tok in t`
Contains(t, tok) ==
    \E i \in 0..(Len(t) - Len(tok)) : SubSeq(t, i + 1, i + Len(tok)) = tok

RECURSIVE Hits(_, _, _)
\* the for-loop over the tokens: 2 for a title hit, else 1 for a snippet hit
Hits(toks, t, sn) ==
    IF toks = <<>> THEN 0
    ELSE (IF Contains(t, Head(toks)) THEN 2
          ELSE IF Contains(sn, Head(toks)) THEN 1
          ELSE 0) + Hits(Tail(toks), t, sn)

\* the keyword score as the fraction num/den
_keyword_scoreCaseSensitive(q, title, snippet) ==
    LET toks == FindAll(Lower(q), <<>>)
    IN IF toks = <<>> THEN [num |-> 0, den |-> 1]
       ELSE LET hit == Hits(toks, title, snippet)
                denom == Max(1, 2 * Len(toks))
            IN [num |-> Min(hit, denom), den |-> denom]

_keyword_score(q, title, snippet) ==
    LET toks == FindAll(Lower(q), <<>>)
    IN IF toks = <<>> THEN [num |-> 0, den |-> 1]
       ELSE LET hit == Hits(toks, Lower(title), Lower(snippet))
                denom == Max(1, 2 * Len(toks))
            IN [num |-> Min(hit, denom), den |-> denom]

\* tenths of the trust score: TRUST.get(source.lower(), 0.5)
_trust_score(src) ==
    LET low == LowerSource(src)
    IN CASE low = "nipa" -> 10
         [] low = "bizinfo" -> 9
         [] low = "web" -> 6
         [] OTHER -> 5

\* sd, sk, st of score_item
Parts(it, q) ==
    [sd |-> _deadline_score(it.close_date),
     sk |-> _keyword_score(q, it.title, it.snippet),
     st |-> _trust_score(it.source)]

\* 0.5*sd + 0.3*sk + 0.2*st as the fraction num/den
WeightedHeavyKeyword(parts) ==
    [num |-> 5 * parts.sd * parts.sk.den + 150 * parts.sk.num + 6 * parts.st * parts.sk.den,
     den |-> 300 * parts.sk.den]

Weighted(parts) ==
    [num |-> 5 * parts.sd * parts.sk.den + 90 * parts.sk.num + 6 * parts.st * parts.sk.den,
     den |-> 300 * parts.sk.den]

score_item(it, q) == Weighted(Parts(it, q))

\* round(sc, 4), in ten-thousandths
Round4(sc) == (2 * 10000 * sc.num + sc.den) \div (2 * sc.den)

\* it2 = dict(it); it2["score"] = round(sc, 4)
Scored(it, q) ==
    [title |-> it.title, snippet |-> it.snippet, source |-> it.source,
     close_date |-> it.close_date, score |-> Round4(score_item(it, q))]

\* sort_key(x), the negated members kept as the values they negate
sort_key(x) ==
    [days |-> _days_until(x.close_date), score |-> x.score, trust |-> _trust_score(x.source)]

\* tuple comparison of two sort keys: days ascending, then score and trust
\* descending
KeyLess(a, b) ==
    \/ a.days < b.days
    \/ a.days = b.days /\ a.score > b.score
    \/ a.days = b.days /\ a.score = b.score /\ a.trust > b.trust

RECURSIVE InsertUnstable(_, _)
InsertUnstable(sorted, e) ==
    IF sorted = <<>> THEN <<e>>
    ELSE IF ~KeyLess(sort_key(Head(sorted).it), sort_key(e.it)) THEN <<e>> \o sorted
    ELSE <<Head(sorted)>> \o InsertUnstable(Tail(sorted), e)

RECURSIVE Insert(_, _)
\* list.sort is stable: an element goes in front of the first one whose key
\* is greater than its own
Insert(sorted, e) ==
    IF sorted = <<>> THEN <<e>>
    ELSE IF KeyLess(sort_key(e.it), sort_key(Head(sorted).it)) THEN <<e>> \o sorted
    ELSE <<Head(sorted)>> \o Insert(Tail(sorted), e)

RECURSIVE SortFrom(_, _, _)
\* scored.sort(key=sort_key) on the entries [it, pos], from entry i on
SortFrom(entries, i, sorted) ==
    IF i > Len(entries) THEN sorted
    ELSE SortFrom(entries, i + 1, Insert(sorted, entries[i]))

\* lines 55-66: the scored copies with their input positions, sorted
RankEntries(items, q) ==
    SortFrom([i \in 1..Len(items) |-> [it |-> Scored(items[i], q), pos |-> i]], 1, <<>>)

\* what the loop of lines 57-60 leaves of an input item were the score
\* written to the item itself (it2 = it)
ItemAfterScoringInPlace(it, q) == Scored(it, q)

\* line 59: dict(it) is a new dict, so the score goes to the copy and the
\* input item stays as it was
ItemAfterScoring(it, q) == it

\* lines 56-65: the loop appends to the new list `scored`, and it is
\* `scored` that is sorted; the input list keeps its items in their places
ItemsAfter(items, q) == [i \in 1..Len(items) |-> ItemAfterScoring(items[i], q)]

\* rank_items as one step
Rank ==
    /\ rk_pc = "call"
    /\ \E sorted \in {RankEntries(rk_items, rk_query)} :
          /\ rk_out' = [i \in 1..Len(sorted) |-> sorted[i].it]
          /\ rk_perm' = [i \in 1..Len(sorted) |-> sorted[i].pos]
    /\ rk_parts' = [i \in 1..Len(rk_items) |-> Parts(rk_items[i], rk_query)]
    /\ rk_items' = ItemsAfter(rk_items, rk_query)
    /\ rk_pc' = "returned"
    /\ UNCHANGED rk_query
    /\ UNCHANGED notRk

RkNext == Rank

RkIdle ==
    /\ rk_pc = "call"
    /\ rk_items = <<>>
    /\ rk_query = <<>>
    /\ rk_parts = <<>>
    /\ rk_out = <<>>
    /\ rk_perm = <<>>

RkStart ==
    /\ rk_pc = "call"
    /\ rk_parts = <<>>
    /\ rk_out = <<>>
    /\ rk_perm = <<>>

Item(title, snippet, src, cd) ==
    [title |-> title, snippet |-> snippet, source |-> src, close_date |-> cd]

\* lists of notices with few titles and sources and with close dates that
\* are missing, unparseable, due, near, and beyond the 9999-day mark
RankItems ==
    {Item(t, <<>>, src, cd) :
        t \in {<<"a">>, <<"b">>}, src \in {"nipa", "web"},
        cd \in {EmptyDate, BadDate, DateIn(0), DateIn(15), DateIn(NO_DATE_DAYS + 1)}}

RankInit ==
    /\ RkStart
    /\ rk_items \in SeqsUpTo(RankItems, MaxRankItems)
    /\ rk_query = <<"a">>

\* one notice with every close date, source, and a few texts
CloseDates ==
    {EmptyDate, BadDate} \cup {DateIn(d) : d \in (0 - MaxDays)..MaxDays}
      \cup {DateIn(d) : d \in (NO_DATE_DAYS - 1)..(NO_DATE_DAYS + 1)}

Sources == {"nipa", "NIPA", "bizinfo", "web", "pps.data.go.kr", ""}

ScoreInit ==
    /\ RkStart
    /\ rk_items \in {<<Item(t, sn, src, cd)>> :
                        t \in {<<>>, <<"a">>, <<"a", " ", "B">>}, sn \in {<<>>, <<"b">>},
                        src \in Sources, cd \in CloseDates}
    /\ rk_query \in {<<>>, <<"a">>, <<"A", " ", "b">>}

\* two notices that differ in their close date only
DeadlineInit ==
    /\ RkStart
    /\ rk_items \in {<<Item(<<"a">>, <<>>, "web", c1), Item(<<"a">>, <<>>, "web", c2)>> :
                        c1 \in CloseDates, c2 \in CloseDates}
    /\ rk_query = <<"a">>

\* one notice with every short query, title and snippet
TextChars == {"a", "A", "b", " ", "-"}

KwInit ==
    /\ RkStart
    /\ rk_items \in {<<Item(t, sn, "web", EmptyDate)>> :
                        t \in SeqsUpTo({"a", "A", "b"}, MaxTextLen),
                        sn \in SeqsUpTo({"a", "b"}, MaxTextLen)}
    /\ rk_query \in SeqsUpTo(TextChars, MaxQueryLen)

\* ===================================================================
\*                 rank_items: properties
\* ===================================================================
RkIn == 1..Len(rk_items)
RkOut == 1..Len(rk_out)

IsDate(it) == it.close_date.kind = "date"

\* C12: an item with an empty close date has deadline score 0.0 and comes
\* after every item whose close date parses, however far that date is in the
\* future or the past.
C12_EmptyDateLast ==
    rk_pc = "returned" =>
        \A i \in RkOut :
            rk_out[i].close_date = EmptyDate =>
                /\ rk_parts[rk_perm[i]].sd = 0
                /\ \A j \in RkOut : IsDate(rk_out[j]) => j < i

\* C13: with days the whole days from today to the close date, thirty times
\* the deadline score is 30 for days <= 0, 0 for days >= 30 and 30 - days in
\* between; it lies in 0..30 and never grows with days.
C13_DeadlinePiecewise ==
    rk_pc = "returned" =>
        \A i \in RkIn :
            IsDate(rk_items[i]) =>
                LET days == rk_items[i].close_date.days
                    sd == rk_parts[i].sd
                IN /\ days <= 0 => sd = 30
                   /\ days >= 30 => sd = 0
                   /\ (0 < days /\ days < 30) => sd = 30 - days
                   /\ sd \in 0..30
                   /\ \A j \in RkIn :
                         (IsDate(rk_items[j]) /\ days <= rk_items[j].close_date.days)
                             => sd >= rk_parts[j].sd

\* a date 15 days ahead scores one half, next to a date in the past
C13_Witness ==
    /\ rk_pc = "returned"
    /\ Len(rk_items) = 2
    /\ rk_items[1].close_date = DateIn(15)
    /\ rk_parts[1].sd = 15
    /\ rk_items[2].close_date.kind = "date"
    /\ rk_items[2].close_date.days < 0
    /\ rk_parts[2].sd = 30

\* C14: every returned score lies in [0,1] (0..10000 ten-thousandths); each
\* component lies in [0,1]; and the score is 0.5*sd + 0.3*sk + 0.2*st rounded
\* to four places, i.e. within half a ten-thousandth of it.
C14_ScoreInUnitInterval ==
    rk_pc = "returned" =>
        \A i \in RkOut :
            LET parts == rk_parts[rk_perm[i]]
                r == rk_out[i].score
                \* 600 * sk.den times the weighted sum
                w == 10 * parts.sd * parts.sk.den + 180 * parts.sk.num
                        + 12 * parts.st * parts.sk.den
                unit == 600 * parts.sk.den
            IN /\ r \in 0..10000
               /\ parts.sd \in 0..30
               /\ parts.sk.den > 0
               /\ parts.sk.num \in 0..parts.sk.den
               /\ parts.st \in 0..10
               /\ 2 * (r * unit - 10000 * w) <= unit
               /\ 2 * (10000 * w - r * unit) <= unit

\* a due notice from a fully trusted source whose title holds every query
\* token scores 1.0
C14_Witness ==
    /\ rk_pc = "returned"
    /\ Len(rk_out) = 1
    /\ rk_out[1].score = 10000
    /\ rk_out[1].source = "NIPA"
    /\ rk_out[1].close_date.kind = "date"

\* the query as _keyword_score reads it
LowQuery == Lower(rk_query)

\* the maximal runs of word characters of the query, as <<first, last>>
QueryRuns ==
    {r \in (1..Len(LowQuery)) \X (1..Len(LowQuery)) :
        /\ r[1] <= r[2]
        /\ \A i \in r[1]..r[2] : LowQuery[i] \in WordChars
        /\ r[1] = 1 \/ LowQuery[r[1] - 1] \notin WordChars
        /\ r[2] = Len(LowQuery) \/ LowQuery[r[2] + 1] \notin WordChars}

RunText(r) == SubSeq(LowQuery, r[1], r[2])

\* text holds tok, whatever the case of text
Occurs(tok, text) ==
    \E i \in 1..Len(text) :
        /\ i + Len(tok) - 1 <= Len(text)
        /\ \A k \in 1..Len(tok) : LowerChar(text[i + k - 1]) = tok[k]

InTitle(it) == {r \in QueryRuns : Occurs(RunText(r), it.title)}

InSnippetOnly(it) ==
    {r \in QueryRuns : ~Occurs(RunText(r), it.title) /\ Occurs(RunText(r), it.snippet)}

\* C15: with n the number of query tokens and S = 2 per token found in the
\* title plus 1 per other token found in the snippet, without regard to
\* case, the keyword score is min(1, S / (2n)); it is 0 for a query without
\* tokens, 1 when every token is in the title, 0 when no token is found.
C15_KeywordScore ==
    rk_pc = "returned" =>
        \A i \in RkIn :
            LET it == rk_items[i]
                sk == rk_parts[i].sk
                n == Cardinality(QueryRuns)
                S == 2 * Cardinality(InTitle(it)) + Cardinality(InSnippetOnly(it))
            IN /\ sk.den > 0
               /\ n = 0 => sk.num = 0
               /\ n > 0 => sk.num * 2 * n = Min(2 * n, S) * sk.den
               /\ (n > 0 /\ InTitle(it) = QueryRuns) => sk.num = sk.den
               /\ (InTitle(it) = {} /\ InSnippetOnly(it) = {}) => sk.num = 0

\* two tokens, one found in the title in the other case, one in the snippet
C15_Witness ==
    /\ rk_pc = "returned"
    /\ rk_query = <<"a", " ", "b">>
    /\ rk_items[1].title = <<"A">>
    /\ rk_items[1].snippet = <<"b">>
    /\ rk_parts[1].sk = [num |-> 3, den |-> 4]

\* the key of the claim for output position i
KeyAt(i) ==
    [days |-> IF IsDate(rk_out[i]) THEN rk_out[i].close_date.days ELSE NO_DATE_DAYS,
     score |-> rk_out[i].score,
     trust |-> rk_parts[rk_perm[i]].st]

\* a comes no later than b: days ascending, then score, then trust descending
KeyLeq(a, b) ==
    \/ a.days < b.days
    \/ a.days = b.days /\ a.score > b.score
    \/ a.days = b.days /\ a.score = b.score /\ a.trust >= b.trust

\* C16: the output is the input, each item with its score, reordered; keys
\* never decrease from one output position to the next; items with equal
\* keys keep their input order.
C16_StableSort ==
    rk_pc = "returned" =>
        /\ Len(rk_out) = Len(rk_items)
        /\ Len(rk_perm) = Len(rk_items)
        /\ {rk_perm[i] : i \in RkOut} = RkIn
        /\ \A i \in RkOut :
              /\ rk_out[i].title = rk_items[rk_perm[i]].title
              /\ rk_out[i].source = rk_items[rk_perm[i]].source
              /\ rk_out[i].close_date = rk_items[rk_perm[i]].close_date
        /\ \A i \in RkOut : i < Len(rk_out) => KeyLeq(KeyAt(i), KeyAt(i + 1))
        /\ \A i, j \in RkOut : (i < j /\ KeyAt(i) = KeyAt(j)) => rk_perm[i] < rk_perm[j]

\* three items: the last input item comes first, and two items with equal
\* keys and different titles follow in their input order
C16_Witness ==
    /\ rk_pc = "returned"
    /\ rk_perm = <<3, 1, 2>>
    /\ KeyAt(2) = KeyAt(3)
    /\ rk_out[2] # rk_out[3]

\* an output item without its score
Unscored(e) ==
    [title |-> e.title, snippet |-> e.snippet, source |-> e.source,
     close_date |-> e.close_date]

\* C21: rank_items returns a permutation of its input and leaves the input
\* alone: the output is as long as the input; every input item occurs among
\* the outputs, score aside, exactly as often as it occurs in the input, so
\* none is dropped, duplicated or merged; and the input list holds the same
\* items, field by field, after the call as before.
C21_PermutationInputKept ==
    [][Rank =>
        /\ Len(rk_out') = Len(rk_items)
        /\ \A j \in 1..Len(rk_out') :
              \E i \in 1..Len(rk_items) : Unscored(rk_out'[j]) = rk_items[i]
        /\ \A i \in 1..Len(rk_items) :
              Cardinality({j \in 1..Len(rk_out') : Unscored(rk_out'[j]) = rk_items[i]})
                = Cardinality({j \in 1..Len(rk_items) : rk_items[j] = rk_items[i]})
        /\ rk_items' = rk_items
        /\ \A i \in 1..Len(rk_items') : DOMAIN rk_items'[i] = DOMAIN rk_items[i]
    ]_vars

\* the same item twice and a third one that is ranked before both
C21_Witness ==
    /\ rk_pc = "returned"
    /\ Len(rk_items) = 3
    /\ rk_items[1] = rk_items[2]
    /\ rk_items[3] # rk_items[1]
    /\ Unscored(rk_out[1]) = rk_items[3]
    /\ rk_out[2] = rk_out[3]

\* ===================================================================
\*                 get_quotes  (finance client)
\* ===================================================================
\* longest symbol list
MaxSymbols == 2

Digits == {"0", "1", "2", "3", "4", "5", "6", "7", "8", "9"}

KS == <<".", "K", "S">>

\* re.fullmatch(r"\d{6}", s), s given as its characters
IsSixDigits(s) == Len(s) = 6 /\ \A i \in 1..6 : s[i] \in Digits

_normalize_symbol(s) == IF IsSixDigits(s) THEN s \o KS ELSE s

\* the symbols tried: a 6-digit code, a name, a 5-digit code, and a code
\* that already carries the suffix
Symbols ==
    { <<"0", "0", "5", "9", "3", "0">>,
      <<"A", "A", "P", "L">>,
      <<"1", "2", "3", "4", "5">>,
      <<"0", "0", "5", "9", "3", "0">> \o KS }

\* what Ticker(sym) and its fast_info give for one symbol: an exception, no
\* fast_info at all, or a dict or an object with a last_price (missing, a
\* number, or text float() rejects) and a currency (missing or a code)
Raises == [kind |-> "raise", price |-> "none", currency |-> "none"]
NoInfo == [kind |-> "none", price |-> "none", currency |-> "none"]

Feeds ==
    {Raises, NoInfo} \cup
    [kind : {"dict", "obj"}, price : {"none", "num", "text"}, currency : {"none", "USD"}]

ErrorQuote(sym, msg) == [symbol |-> sym, error |-> msg]

PriceQuote(sym, f) == [symbol |-> sym, price |-> f.price, currency |-> f.currency]

\* lines 66-97 without the `continue` of line 89
QuoteEntriesNoContinue(sym, f) ==
    IF f.kind = "raise" THEN <<ErrorQuote(sym, "Exception")>>
    ELSE (IF f.price = "text" THEN <<ErrorQuote(sym, "ValueError: invalid price")>> ELSE <<>>)
         \o (IF f.price = "none" \/ f.currency = "none"
             THEN <<ErrorQuote(sym, "No fast_info (price/currency missing)")>>
             ELSE <<PriceQuote(sym, f)>>)

\* lines 66-97: what one pass of the loop body appends for sym
QuoteEntries(sym, f) ==
    IF f.kind = "raise" THEN <<ErrorQuote(sym, "Exception")>>
    ELSE IF f.price = "text" THEN <<ErrorQuote(sym, "ValueError: invalid price")>>
    ELSE IF f.price = "none" \/ f.currency = "none"
         THEN <<ErrorQuote(sym, "No fast_info (price/currency missing)")>>
    ELSE <<PriceQuote(sym, f)>>

GqInit ==
    /\ gq_pc = "call"
    /\ gq_symbols \in SeqsUpTo(Symbols, MaxSymbols)
    /\ gq_import \in BOOLEAN
    /\ gq_feed \in [1..Len(gq_symbols) -> Feeds]
    /\ gq_i = 1
    /\ gq_out = <<>>

\* lines 53-62: the import; when it fails every symbol gets the same error
GqEnter ==
    /\ gq_pc = "call"
    /\ IF gq_import
       THEN /\ gq_pc' = "loop"
            /\ gq_out' = gq_out
       ELSE /\ gq_pc' = "returned"
            /\ gq_out' = [i \in 1..Len(gq_symbols) |->
                             ErrorQuote(_normalize_symbol(gq_symbols[i]), "ImportError")]
    /\ UNCHANGED <<gq_symbols, gq_import, gq_feed, gq_i>>
    /\ UNCHANGED notGq

\* lines 64-97: one pass of the loop
Quote ==
    /\ gq_pc = "loop"
    /\ gq_i <= Len(gq_symbols)
    /\ gq_out' = gq_out \o QuoteEntries(_normalize_symbol(gq_symbols[gq_i]), gq_feed[gq_i])
    /\ gq_i' = gq_i + 1
    /\ UNCHANGED <<gq_pc, gq_symbols, gq_import, gq_feed>>
    /\ UNCHANGED notGq

\* line 99
GqReturn ==
    /\ gq_pc = "loop"
    /\ gq_i > Len(gq_symbols)
    /\ gq_pc' = "returned"
    /\ UNCHANGED <<gq_symbols, gq_import, gq_feed, gq_i, gq_out>>
    /\ UNCHANGED notGq

GqNext ==
    \/ GqEnter
    \/ Quote
    \/ GqReturn

GqIdle ==
    /\ gq_pc = "call"
    /\ gq_symbols = <<>>
    /\ gq_import = TRUE
    /\ gq_feed = <<>>
    /\ gq_i = 1
    /\ gq_out = <<>>

\* ---- properties
IsPriceQuote(e) == DOMAIN e = {"symbol", "price", "currency"}

IsErrorQuote(e) == DOMAIN e = {"symbol", "error"}

\* the source answers position i with a price float() accepts and a currency
Quotable(i) ==
    /\ gq_feed[i].kind \in {"dict", "obj"}
    /\ gq_feed[i].price = "num"
    /\ gq_feed[i].currency # "none"

\* C19: get_quotes never raises; when it has returned there is exactly one
\* entry per input symbol, in input order, under the normalized symbol (the
\* input plus ".KS" for exactly six digits, the input itself otherwise);
\* every entry has price and currency or has error, never both or neither;
\* and whether an entry is a price or an error depends on its own symbol's
\* answer only.
C19_OneEntryPerSymbol ==
    /\ gq_pc # "raised"
    /\ gq_pc = "returned" =>
          /\ Len(gq_out) = Len(gq_symbols)
          /\ \A i \in 1..Len(gq_out) :
                /\ IsSixDigits(gq_symbols[i]) => gq_out[i].symbol = gq_symbols[i] \o KS
                /\ ~IsSixDigits(gq_symbols[i]) => gq_out[i].symbol = gq_symbols[i]
                /\ IsPriceQuote(gq_out[i]) \/ IsErrorQuote(gq_out[i])
                /\ IsPriceQuote(gq_out[i]) <=> (gq_import /\ Quotable(i))

\* the first symbol fails on a price that is no number, the second, a
\* 6-digit code, is quoted
C19_Witness ==
    /\ gq_pc = "returned"
    /\ Len(gq_symbols) = 2
    /\ gq_feed[1].price = "text"
    /\ IsErrorQuote(gq_out[1])
    /\ IsSixDigits(gq_symbols[2])
    /\ IsPriceQuote(gq_out[2])
    /\ gq_out[2].symbol = gq_symbols[2] \o KS

\* ===================================================================
\*                 pps_search  (search tool)
\* ===================================================================
\* largest PPS_PAGE_MAX tried
MaxEnvPages == 2

\* a callable by the parameter names it takes and those without a default
Callable(name, params, required) ==
    [name |-> name, params |-> params, required |-> required]

\* _FETCH = None: neither import of lines 16-22 worked
NoFetch == Callable("None", {}, {})

\* pps_fetch_bids as pps_api.py defines it: query, then keyword-only options
PpsFetchBids ==
    Callable("pps_fetch_bids",
             {"query", "page_max", "rows", "date_from", "date_to", "inqry_div"},
             {"query"})

\* the shapes the comments of lines 15, 160 and 171 expect from other
\* environments, bound under the second name: one taking every keyword of
\* the full call, one taking (keyword, page_max) only
FetchAllKeywords ==
    Callable("fetch_pps_notices",
             {"keyword", "date_from", "date_to", "rows", "page_max", "inqry_div"},
             {"keyword"})

FetchKeywordPages == Callable("fetch_pps_notices", {"keyword", "page_max"}, {"keyword"})

Fetches == {NoFetch, PpsFetchBids, FetchAllKeywords, FetchKeywordPages}

\* a call with keyword arguments kw binds when every name is a parameter and
\* every parameter without a default is given; otherwise Python raises
\* TypeError before the body runs
Binds(f, kw) == DOMAIN kw \subseteq f.params /\ f.required \subseteq DOMAIN kw

NoParams ==
    [keyword |-> "", date_from |-> "", date_to |-> "", rows |-> 0, page_max |-> 0,
     inqry_div |-> ""]

\* lines 73-88, PPS_DATE_FROM, PPS_DATE_TO and PPS_INQRY_DIV left unset
resolve_params(user_query, env) ==
    [keyword |-> Strip(IF user_query # "" THEN user_query ELSE env.PPS_DEFAULT_QUERY),
     date_from |-> "default_from",
     date_to |-> "default_to",
     rows |-> ResolveInt(env.PPS_ROWS, ROWS_DEFAULT),
     page_max |-> ResolveInt(env.PPS_PAGE_MAX, PAGE_MAX_DEFAULT),
     inqry_div |-> "1"]

\* lines 162-169
FullKwargs(p) ==
    [keyword |-> p.keyword, date_from |-> p.date_from, date_to |-> p.date_to,
     rows |-> p.rows, page_max |-> p.page_max, inqry_div |-> p.inqry_div]

\* line 172
ReducedKwargs(p) == [keyword |-> p.keyword, page_max |-> p.page_max]

\* what the body of a bound call does: a list comes back or the request fails
FetchOutcomes ==
    { [status |-> "ok", raw |-> <<>>],
      [status |-> "ok", raw |-> <<[title |-> "A", url |-> "u1"]>>],
      [status |-> "HTTPError", raw |-> <<>>] }

NoResult == [kind |-> "none", query |-> "", count |-> 0]

\* an exception leaves pps_search
Escapes(exc) == [kind |-> exc, query |-> "", count |-> 0]

PsInit ==
    /\ ps_pc = "call"
    /\ ps_fetch \in Fetches
    /\ ps_query \in {"", "AI", " AI "}
    /\ ps_env \in [PPS_PAGE_MAX : 0..MaxEnvPages, PPS_ROWS : {0, 50},
                   PPS_DEFAULT_QUERY : {"", "AI"}]
    /\ ps_p = NoParams
    /\ ps_calls = <<>>
    /\ ps_raw = <<>>
    /\ ps_result = NoResult

\* lines 155-158
PsEnter ==
    /\ ps_pc = "call"
    /\ IF ps_fetch = NoFetch
       THEN /\ ps_pc' = "returned"
            /\ ps_result' = [kind |-> "warning", query |-> "", count |-> 0]
            /\ ps_p' = ps_p
       ELSE /\ ps_pc' = "full"
            /\ ps_result' = ps_result
            /\ ps_p' = resolve_params(ps_query, ps_env)
    /\ UNCHANGED <<ps_fetch, ps_query, ps_env, ps_calls, ps_raw>>
    /\ UNCHANGED notPs

\* lines 161-170: the full call; a TypeError leads to the reduced call, any
\* other exception leaves pps_search
FullCall(answer) ==
    /\ ps_pc = "full"
    /\ ps_calls' = Append(ps_calls, FullKwargs(ps_p))
    /\ IF ~Binds(ps_fetch, FullKwargs(ps_p))
       THEN /\ ps_pc' = "reduced"
            /\ UNCHANGED <<ps_raw, ps_result>>
       ELSE IF answer.status = "ok"
       THEN /\ ps_pc' = "render"
            /\ ps_raw' = answer.raw
            /\ ps_result' = ps_result
       ELSE /\ ps_pc' = "raised"
            /\ ps_raw' = ps_raw
            /\ ps_result' = Escapes(answer.status)
    /\ UNCHANGED <<ps_fetch, ps_query, ps_env, ps_p>>
    /\ UNCHANGED notPs

\* lines 170-172: the call inside the except clause; nothing catches what
\* it raises
ReducedCall(answer) ==
    /\ ps_pc = "reduced"
    /\ ps_calls' = Append(ps_calls, ReducedKwargs(ps_p))
    /\ IF ~Binds(ps_fetch, ReducedKwargs(ps_p))
       THEN /\ ps_pc' = "raised"
            /\ ps_raw' = ps_raw
            /\ ps_result' = Escapes("TypeError")
       ELSE IF answer.status = "ok"
       THEN /\ ps_pc' = "render"
            /\ ps_raw' = answer.raw
            /\ ps_result' = ps_result
       ELSE /\ ps_pc' = "raised"
            /\ ps_raw' = ps_raw
            /\ ps_result' = Escapes(answer.status)
    /\ UNCHANGED <<ps_fetch, ps_query, ps_env, ps_p>>
    /\ UNCHANGED notPs

\* lines 174-199: one item per raw record, saved and rendered under
\* p.keyword or query
Render ==
    /\ ps_pc = "render"
    /\ ps_pc' = "returned"
    /\ ps_result' = [kind |-> "markdown",
                     query |-> IF ps_p.keyword # "" THEN ps_p.keyword ELSE ps_query,
                     count |-> Len(ps_raw)]
    /\ UNCHANGED <<ps_fetch, ps_query, ps_env, ps_p, ps_calls, ps_raw>>
    /\ UNCHANGED notPs

PsNext ==
    \/ PsEnter
    \/ \E answer \in FetchOutcomes : FullCall(answer)
    \/ \E answer \in FetchOutcomes : ReducedCall(answer)
    \/ Render

PsIdle ==
    /\ ps_pc = "call"
    /\ ps_fetch = NoFetch
    /\ ps_query = ""
    /\ ps_env = [PPS_PAGE_MAX |-> 0, PPS_ROWS |-> 0, PPS_DEFAULT_QUERY |-> ""]
    /\ ps_p = NoParams
    /\ ps_calls = <<>>
    /\ ps_raw = <<>>
    /\ ps_result = NoResult

\* C20: with pps_fetch_bids bound to _FETCH, a TypeError of the full call
\* is absorbed by the reduced call: no TypeError leaves pps_search.
C20_TypeErrorAbsorbed ==
    ps_fetch = PpsFetchBids => ~(ps_pc = "raised" /\ ps_result.kind = "TypeError")

\* ===================================================================
\*                 Specifications
\* ===================================================================
\* the part that is not running stays as constructed
Day1Idle ==
    /\ plan = [do_web |-> FALSE, do_stocks |-> FALSE, tickers |-> <<>>]
    /\ query = [looks_like_ticker |-> FALSE, profile_word |-> FALSE]
    /\ outcome = [k \in Labels |-> Returned(<<>>, FALSE, "")]
    /\ pc = "start"
    /\ futures = <<>>
    /\ finished = {}
    /\ collected = <<>>
    /\ results = EmptyResults
    /\ writes = [s \in Slots |-> 0]
    /\ payload = EmptyResults
    /\ expired = FALSE
    /\ late = {}

PpsIdle ==
    /\ service_key = FALSE
    /\ rows = ROWS_DEFAULT
    /\ page_max = PAGE_MAX_DEFAULT
    /\ ppc = "call"
    /\ page = 0
    /\ out = <<>>
    /\ requested = <<>>
    /\ responses = <<>>
    /\ ret = <<>>

Idle(part) ==
    /\ part = "day1" \/ Day1Idle
    /\ part = "pps" \/ PpsIdle
    /\ part = "nt" \/ NtIdle
    /\ part = "rk" \/ RkIdle
    /\ part = "gq" \/ GqIdle
    /\ part = "ps" \/ PsIdle

Init == Day1Init /\ Idle("day1")

Spec == Init /\ [][Next]_vars

PpsSpecInit == PpsInit /\ Idle("pps")

PpsSpec == PpsSpecInit /\ [][PpsNext]_vars

\* the loop body always runs to its end once a request is answered
PpsFairSpec == PpsSpecInit /\ [][PpsNext]_vars /\ WF_vars(PpsNext)

NtSpecInit == NtInit /\ Idle("nt")

NtSpec == NtSpecInit /\ [][NtNext]_vars

QuoteSpecInit == GqInit /\ Idle("gq")

QuoteSpec == QuoteSpecInit /\ [][GqNext]_vars

SearchSpecInit == PsInit /\ Idle("ps")

SearchSpec == SearchSpecInit /\ [][PsNext]_vars

RankSpecInit == RankInit /\ Idle("rk")

RankSpec == RankSpecInit /\ [][RkNext]_vars

ScoreSpecInit == ScoreInit /\ Idle("rk")

ScoreSpec == ScoreSpecInit /\ [][RkNext]_vars

DeadlineSpecInit == DeadlineInit /\ Idle("rk")

DeadlineSpec == DeadlineSpecInit /\ [][RkNext]_vars

KwSpecInit == KwInit /\ Idle("rk")

KwSpec == KwSpecInit /\ [][RkNext]_vars

====
